---- MODULE Spec2Model ----
(***************************************************************************)
(* Transformer factory of ig248/mario (notebooks/factory.ipynb, README).   *)
(*                                                                         *)
(* A plain function  f(x, k1=d1, ..., kN=dN)  is turned into an object of *)
(* a generated class  FunctionTransformer_f(BaseEstimator,                 *)
(* TransformerMixin)  whose __init__ stores  func  and every keyword       *)
(* parameter as an attribute, whose fit returns self and whose transform   *)
(* calls  self.func(x, k1=self.k1, ..., kN=self.kN).                       *)
(*                                                                         *)
(* Python values are tagged pairs: <<"int", n>>, <<"function", name>>,     *)
(* <<"array", rows>>.  The outcome of a call is <<"ok", value>> or         *)
(* <<"raise", exception name>>.                                            *)
(***************************************************************************)
EXTENDS Integers, Sequences, FiniteSets, TLC

-----------------------------------------------------------------------------
(* Bounds of the model.                                                    *)

\* number of transformer objects that can be alive
MaxInst == 1
\* largest number of keyword arguments in one call on a transformer
MaxKw == 2
\* largest number of steps of the pipeline
MaxSteps == 2
\* largest number of nested keyword arguments in one call on the pipeline
MaxNested == 1
\* number of transformer objects alive side by side
MaxPair == 2

-----------------------------------------------------------------------------
(* Python values.                                                          *)

PyInt(n) == <<"int", n>>
Fn(f) == <<"function", f>>
Array(rows) == <<"array", rows>>
Ok(v) == <<"ok", v>>
Raise(e) == <<"raise", e>>
IsOk(r) == r[1] = "ok"
None == <<"None", 0>>

\* inspect._empty: the default of a parameter that has none
Empty == <<"empty", 0>>

\* X of the notebook, and a second array
X == Array(<< <<1, 2>>, <<3, 4>> >>)
X2 == Array(<< <<0, 5>> >>)
Inputs == {X, X2}

\* values a caller passes for a keyword parameter
Vals == {PyInt(2), PyInt(10)}

\* numpy: array * int and array + int, element by element
ArrayMul(a, v) ==
    Array([r \in DOMAIN a[2] |-> [c \in DOMAIN a[2][r] |-> a[2][r][c] * v[2]]])
ArrayAdd(a, v) ==
    Array([r \in DOMAIN a[2] |-> [c \in DOMAIN a[2][r] |-> a[2][r][c] + v[2]]])

-----------------------------------------------------------------------------
(* The functions handed to the factory: name, parameter list in order     *)
(* (inspect.signature) and body.                                           *)

Param(n, d) == [name |-> n, default |-> d]

FuncNames ==
    {"scale", "shift", "linear", "negate", "add", "offset", "_identity"}

\* def scale(x, factor=1.): return x * factor
\* def shift(x, by=0): return x + by
\* def linear(x, arg1=1, arg2=3): return x * arg1 + arg2
\* def negate(x): return x * -1
\* def add(x, y, k=1): return x * k + y
\* def offset(k=1): return k
\* def _identity(x): return x
\* def apply(x, func=1): return x * func
signature(f) ==
    CASE f = "scale"     -> << Param("x", Empty), Param("factor", PyInt(1)) >>
      [] f = "shift"     -> << Param("x", Empty), Param("by", PyInt(0)) >>
      [] f = "linear"    -> << Param("x", Empty), Param("arg1", PyInt(1)),
                               Param("arg2", PyInt(3)) >>
      [] f = "negate"    -> << Param("x", Empty) >>
      [] f = "add"       -> << Param("x", Empty), Param("y", Empty),
                               Param("k", PyInt(1)) >>
      [] f = "offset"    -> << Param("k", PyInt(1)) >>
      [] f = "_identity" -> << Param("x", Empty) >>
      [] f = "apply"     -> << Param("x", Empty), Param("func", PyInt(1)) >>

\* the body of f, run on the bound arguments b (parameter name -> value)
Body(f, b) ==
    CASE f = "scale"     -> ArrayMul(b["x"], b["factor"])
      [] f = "shift"     -> ArrayAdd(b["x"], b["by"])
      [] f = "linear"    -> ArrayAdd(ArrayMul(b["x"], b["arg1"]), b["arg2"])
      [] f = "negate"    -> ArrayMul(b["x"], PyInt(-1))
      [] f = "add"       -> ArrayAdd(ArrayMul(b["x"], b["k"]), b["y"])
      [] f = "offset"    -> b["k"]
      [] f = "_identity" -> b["x"]
      [] f = "apply"     -> ArrayMul(b["x"], b["func"])

-----------------------------------------------------------------------------
(* Keyword arguments: a dict is a sequence of <<key, value>> pairs with    *)
(* distinct keys, in insertion order.  A key is a sequence of segments,    *)
(* the text between "__" delimiters: factor is <<"factor">>,               *)
(* scaler__factor is <<"scaler", "factor">>.                               *)

Range(s) == {s[i] : i \in DOMAIN s}
Keys(d) == {d[i][1] : i \in DOMAIN d}
Lookup(d, k) == (CHOOSE i \in DOMAIN d : d[i][1] = k)
Get(d, k) == d[Lookup(d, k)][2]

\* the dicts of at most max entries drawn from a set of <<key, value>>
DictsUpTo(pairs, max) ==
    {d \in UNION {[1..n -> pairs] : n \in 0..max} :
        \A i, j \in DOMAIN d : d[i][1] = d[j][1] => i = j}

Dicts(pairs) == DictsUpTo(pairs, MaxKw)

\* the names of a parameter list, in order
Names(params) == [i \in DOMAIN params |-> params[i].name]

\* Python's argument binding for a call of a function with parameter list
\* params, positional arguments pos and keyword arguments kw
BindArgs(params, pos, kw) ==
    LET names == Range(Names(params))
        byPos == {params[i].name : i \in (DOMAIN params) \cap (DOMAIN pos)}
        byKw == {k[1] : k \in {k \in Keys(kw) : Len(k) = 1}}
        missing == {params[i].name : i \in {i \in DOMAIN params :
                       /\ params[i].default = Empty
                       /\ params[i].name \notin byPos \cup byKw}}
    IN  IF Len(pos) > Len(params) THEN Raise("TypeError")
        ELSE IF \E k \in Keys(kw) : Len(k) # 1 \/ k[1] \notin names
             THEN Raise("TypeError")
        ELSE IF byPos \cap byKw # {} THEN Raise("TypeError")
        ELSE IF missing # {} THEN Raise("TypeError")
        ELSE Ok([n \in names |->
                   LET i == CHOOSE i \in DOMAIN params : params[i].name = n
                   IN  IF i \in DOMAIN pos THEN pos[i]
                       ELSE IF n \in byKw THEN Get(kw, <<n>>)
                       ELSE params[i].default])

\* f(*pos, **kw), f a Python value
Call(f, pos, kw) ==
    IF f[1] # "function" THEN Raise("TypeError")
    ELSE LET b == BindArgs(signature(f[2]), pos, kw)
         IN  IF IsOk(b) THEN Ok(Body(f[2], b[2])) ELSE b

-----------------------------------------------------------------------------
(* Objects.  An object is its class and its attribute dictionary; obj     *)
(* attributes live in one namespace, as in Python.                         *)

setattr(d, name, v) ==
    [n \in (DOMAIN d) \cup {name} |-> IF n = name THEN v ELSE d[n]]

hasattr(d, name) == name \in DOMAIN d

NoAttrs == [n \in {} |-> None]

-----------------------------------------------------------------------------
(* Signature parsing (notebook cell 17).                                   *)

\* args = [name for name, param in ... if param.default is inspect._empty]
args(f) ==
    Names(SelectSeq(signature(f), LAMBDA p : p.default = Empty))

\* kwargs_defaults = [(name, param.default) for ... if param.default is
\*                    not inspect._empty]
kwargs_defaults(f) ==
    SelectSeq(signature(f), LAMBDA p : p.default # Empty)

\* unzip with the defaults taken in reverse order
unzip_reversed(kd) ==
    IF kd = << >> THEN Raise("ValueError")
    ELSE Ok([kwargs |-> Names(kd),
             defaults |-> [i \in DOMAIN kd |-> kd[Len(kd) + 1 - i].default]])

\* kwargs, defaults = zip(*kwargs_defaults): unpacking the empty zip into
\* two names raises ValueError
unzip(kd) ==
    IF kd = << >> THEN Raise("ValueError")
    ELSE Ok([kwargs |-> Names(kd),
             defaults |-> [i \in DOMAIN kd |-> kd[i].default]])

-----------------------------------------------------------------------------
(* The generated methods (notebook cell 21) and class (cell 23).           *)

\* the parameter list of the generated __init__ after self:
\* '__init__(self, {args})' with defaults=defaults
init_signature(cls) ==
    [i \in DOMAIN cls.kwargs |-> Param(cls.kwargs[i], cls.defaults[i])]

RECURSIVE init_body_defaults(_, _, _, _)
\* init_body that stores the defaults whatever the caller passed
init_body_defaults(cls, d, b, i) ==
    IF i = 0 THEN setattr(d, "func", cls.func)
    ELSE setattr(init_body_defaults(cls, d, b, i - 1),
                 cls.kwargs[i], cls.defaults[i])

RECURSIVE init_body(_, _, _, _)
\* self.func = func, then self.{kwarg} = {kwarg} for each kwarg in order;
\* func is the parameter of that name when there is one, else the function
\* in the evaldict
init_body(cls, d, b, i) ==
    IF i = 0
    THEN setattr(d, "func", IF "func" \in DOMAIN b THEN b["func"] ELSE cls.func)
    ELSE setattr(init_body(cls, d, b, i - 1), cls.kwargs[i], b[cls.kwargs[i]])

\* new_class(**kw): bind the keyword arguments, run the body on a new object
proto__init(cls, kw) ==
    LET b == BindArgs(init_signature(cls), << >>, kw)
    IN  IF IsOk(b)
        THEN Ok([cls |-> cls,
                 dict |-> init_body(cls, NoAttrs, b[2], Len(cls.kwargs))])
        ELSE b

\* 'return self.func(x, k1=self.k1, ..., kN=self.kN)'
kwarg_string(self) ==
    [i \in DOMAIN self.cls.kwargs |->
        << <<self.cls.kwargs[i]>>, self.dict[self.cls.kwargs[i]] >>]

\* proto_transform that calls the function without the stored values
proto_transform_defaults(self, x) ==
    Call(self.dict["func"], <<x>>, << >>)

\* proto_transform whose body lacks the return
proto_transform_noreturn(self, x) ==
    LET r == Call(self.dict["func"], <<x>>, kwarg_string(self))
    IN  IF IsOk(r) THEN Ok(None) ELSE r

proto_transform(self, x) ==
    Call(self.dict["func"], <<x>>, kwarg_string(self))

\* the class made from function f by cells 17 to 23
new_class(f) ==
    LET z == unzip(kwargs_defaults(f))
    IN  IF IsOk(z)
        THEN Ok([name |-> f, func |-> Fn(f),
                 kwargs |-> z[2].kwargs, defaults |-> z[2].defaults])
        ELSE z

\* the class of function_transformer() called without a function
identity_class ==
    [name |-> "_identity", func |-> Fn("_identity"),
     kwargs |-> << >>, defaults |-> << >>]

\* function_transformer(func=None, **kw)
function_transformer(f, kw) ==
    IF f = None THEN proto__init(identity_class, kw)
    ELSE LET c == new_class(f[2])
         IN  IF IsOk(c) THEN proto__init(c[2], kw) ELSE c

-----------------------------------------------------------------------------
(* The estimator protocol the generated class inherits from              *)
(* BaseEstimator and TransformerMixin (cell 23).                           *)

\* proto_fit that puts every keyword parameter back to its default
proto_fit_reset(self, x) ==
    [self EXCEPT !.dict =
        [n \in DOMAIN self.dict |->
            IF \E i \in DOMAIN self.cls.kwargs : self.cls.kwargs[i] = n
            THEN self.cls.defaults[CHOOSE i \in DOMAIN self.cls.kwargs :
                                      self.cls.kwargs[i] = n]
            ELSE self.dict[n]]]

\* 'fit(self, x)': 'return self'
proto_fit(self, x) == self

\* key.partition('__'): head, whether the delimiter was found, rest
partition(key) ==
    [key |-> key[1], delim |-> Len(key) > 1, sub_key |-> Tail(key)]

\* the names of the parameters of __init__ after self
get_param_names(cls) == Range(cls.kwargs)

\* get_params(): {name: getattr(self, name, None)} over the names of the
\* parameters of __init__
get_params(self) ==
    [n \in get_param_names(self.cls) |->
        IF hasattr(self.dict, n) THEN self.dict[n] ELSE None]

\* the keyword arguments of kw whose key starts with head, without the
\* head, in order
sub_params(kw, head) ==
    LET sel == SelectSeq(kw, LAMBDA e : Len(e[1]) > 1 /\ e[1][1] = head)
    IN  [i \in DOMAIN sel |-> << Tail(sel[i][1]), sel[i][2] >>]

RECURSIVE set_params_loop(_, _, _)
\* the loop of set_params over params.items(), from entry i on: an unknown
\* name raises at once and keeps what the entries before it have set
set_params_loop(self, kw, i) ==
    IF i > Len(kw) THEN [self |-> self, ret |-> Ok(None)]
    ELSE LET p == partition(kw[i][1])
         IN  IF p.key \notin get_param_names(self.cls)
             THEN [self |-> self, ret |-> Raise("ValueError")]
             ELSE IF p.delim
             THEN set_params_loop(self, kw, i + 1)
             ELSE set_params_loop(
                      [self EXCEPT !.dict = setattr(self.dict, p.key, kw[i][2])],
                      kw, i + 1)

\* set_params that skips the names it does not know
set_params_lenient(self, kw) ==
    LET known == SelectSeq(kw, LAMBDA e : e[1][1] \in get_param_names(self.cls))
        r == set_params_loop(self, known, 1)
    IN  [self |-> r.self, ret |-> Ok(r.self)]

\* set_params that puts the parameters it is not given back to their
\* defaults
set_params_reinit(self, kw) ==
    LET r == set_params_loop(proto_fit_reset(self, None), kw, 1)
    IN  IF kw = << >> THEN [self |-> self, ret |-> Ok(self)]
        ELSE IF ~IsOk(r.ret) THEN r
        ELSE [self |-> r.self, ret |-> Ok(r.self)]

\* set_params(**kw) of a generated transformer; a nested key names a
\* parameter whose value is no estimator
set_params(self, kw) ==
    LET r == set_params_loop(self, kw, 1)
    IN  IF kw = << >> THEN [self |-> self, ret |-> Ok(self)]
        ELSE IF ~IsOk(r.ret) THEN r
        ELSE IF \E i \in DOMAIN kw : Len(kw[i][1]) > 1
             THEN [self |-> r.self, ret |-> Raise("AttributeError")]
        ELSE [self |-> r.self, ret |-> Ok(r.self)]

\* TransformerMixin.fit_transform(X): self.fit(X).transform(X)
fit_transform(self, x) == proto_transform(proto_fit(self, x), x)

-----------------------------------------------------------------------------
(* sklearn's Pipeline over generated transformers (notebook cell 31,       *)
(* README usage).  steps is a sequence of [name, est].                     *)

StepNamesOf(steps) == {steps[k].name : k \in DOMAIN steps}
StepIndex(steps, name) == CHOOSE k \in DOMAIN steps : steps[k].name = name

\* the heads of the keys of kw, each once, in order of first appearance
Heads(kw) ==
    LET first == SelectSeq([i \in DOMAIN kw |-> i],
                     LAMBDA i : \A j \in 1..(i - 1) : kw[j][1][1] # kw[i][1][1])
    IN  [i \in DOMAIN first |-> kw[first[i]][1][1]]

RECURSIVE pipeline_set_nested(_, _, _, _)
\* valid_params[key].set_params(**sub_params) for each group of nested
\* keys, from group g on; the first call that raises ends the loop
pipeline_set_nested(steps, kw, heads, g) ==
    IF g > Len(heads) THEN [steps |-> steps, ret |-> Ok(None)]
    ELSE IF heads[g] \notin StepNamesOf(steps)
    THEN [steps |-> steps, ret |-> Raise("AttributeError")]
    ELSE LET k == StepIndex(steps, heads[g])
             r == set_params(steps[k].est, sub_params(kw, heads[g]))
             after == [steps EXCEPT ![k].est = r.self]
         IN  IF IsOk(r.ret) THEN pipeline_set_nested(after, kw, heads, g + 1)
             ELSE [steps |-> after, ret |-> r.ret]

\* pipeline.set_params(**kw), every key of kw nested (step__param): a head
\* that is no parameter of the pipeline raises before anything is set
pipeline_set_params(steps, kw) ==
    IF kw = << >> THEN [steps |-> steps, ret |-> Ok(None)]
    ELSE IF \E i \in DOMAIN kw :
               kw[i][1][1] \notin StepNamesOf(steps) \cup {"memory", "steps"}
    THEN [steps |-> steps, ret |-> Raise("ValueError")]
    ELSE pipeline_set_nested(steps, kw, Heads(kw), 1)

RECURSIVE pipeline_fit_transform_unchained(_, _, _)
\* pipeline_fit_transform that hands every step the input of the pipeline
pipeline_fit_transform_unchained(steps, x, k) ==
    IF k > Len(steps) THEN [steps |-> steps, ret |-> Ok(x)]
    ELSE LET r == proto_transform(steps[k].est, x)
         IN  IF ~IsOk(r) THEN [steps |-> steps, ret |-> r]
             ELSE IF k = Len(steps) THEN [steps |-> steps, ret |-> r]
             ELSE pipeline_fit_transform_unchained(steps, x, k + 1)

RECURSIVE pipeline_fit_transform(_, _, _)
\* pipeline.fit_transform(x): each step in order is fitted and transforms
\* the output of the step before, from step k on
pipeline_fit_transform(steps, x, k) ==
    IF k > Len(steps) THEN [steps |-> steps, ret |-> Ok(x)]
    ELSE LET fitted == proto_fit(steps[k].est, x)
             r == proto_transform(fitted, x)
             after == [steps EXCEPT ![k].est = fitted]
         IN  IF IsOk(r) THEN pipeline_fit_transform(after, r[2], k + 1)
             ELSE [steps |-> after, ret |-> r]

-----------------------------------------------------------------------------
(* State.                                                                  *)

VARIABLES
    objs,    \* the transformers made so far: id -> object
    last,    \* the last call: what was called, on what, with what data
             \* and which keyword names, and what it returned or raised
    told,    \* history: id -> the value the caller last gave each keyword
             \* parameter, at construction or by set_params
    clean,   \* history: no set_params has raised so far
    pipe,    \* the steps of the pipeline, << >> before it is made
    ptold    \* history: step -> the value the caller last gave each keyword
             \* parameter of the step

vars == <<objs, last, told, clean, pipe, ptold>>

Ref(i) == <<"object", i>>

CallRec(op, i, f, x, kw, ret) ==
    [op |-> op, obj |-> i, func |-> f, x |-> x, keys |-> Keys(kw), ret |-> ret]

\* the functions a caller hands to the factory
Wrappable == {Fn(n) : n \in FuncNames \ {"_identity"}}

\* the keyword names of function value f, as its def line gives them
KwNames(f) ==
    IF f = None THEN {}
    ELSE {p.name : p \in {q \in Range(signature(f[2])) : q.default # Empty}}

DefaultOf(f, n) ==
    (CHOOSE p \in Range(signature(f[2])) : p.name = n).default

\* the keyword arguments a caller tries on a transformer of f: f's keyword
\* names with each value, the attribute name func and a name f does not have
KwFor(f) ==
    ({<<n>> : n \in KwNames(f)} \X Vals)
        \cup ({<<"func">>, <<"bogus">>} \X {PyInt(2)})

\* the function a transformer was made from, None for the identity one
MadeFrom(self) ==
    IF self.cls.name = "_identity" THEN None ELSE Fn(self.cls.name)

NoHistory == [n \in {} |-> None]

Init ==
    /\ objs = [i \in {} |-> None]
    /\ told = [i \in {} |-> None]
    /\ clean = TRUE
    /\ last = CallRec("none", 0, None, None, << >>, Ok(None))
    /\ pipe = << >>
    /\ ptold = << >>

Extend(m, i, v) == [j \in (DOMAIN m) \cup {i} |-> IF j = i THEN v ELSE m[j]]

\* what a caller who passed kw on top of the values before has told
Overridden(before, kw) ==
    [n \in DOMAIN before |->
        IF <<n>> \in Keys(kw) THEN Get(kw, <<n>>) ELSE before[n]]

\* t = function_transformer(f, **kw), the caller keeping at most max
\* transformers
Construct(f, kw, max) ==
    LET r == function_transformer(f, kw)
        i == Cardinality(DOMAIN objs) + 1
    IN  /\ i <= max
        /\ IF IsOk(r)
           THEN /\ objs' = Extend(objs, i, r[2])
                /\ told' = Extend(told, i,
                       IF clean
                       THEN Overridden([n \in KwNames(f) |-> DefaultOf(f, n)],
                                       kw)
                       ELSE NoHistory)
                /\ clean' = clean
                /\ last' = CallRec("function_transformer", i, f, None, kw,
                                   Ok(Ref(i)))
           ELSE /\ UNCHANGED <<objs, told, clean>>
                /\ last' = CallRec("function_transformer", 0, f, None, kw, r)
        /\ UNCHANGED <<pipe, ptold>>

\* t = function_transformer(f, **kw)
FunctionTransformer(f, kw) == Construct(f, kw, MaxInst)

\* set_params that stores the values on every transformer of the class
SetParamsOnClass(i, kw) ==
    /\ objs' = [j \in DOMAIN objs |->
                   IF objs[j].cls = objs[i].cls
                   THEN set_params(objs[j], kw).self ELSE objs[j]]
    /\ told' = [j \in DOMAIN told |-> NoHistory]
    /\ clean' = FALSE
    /\ last' = CallRec("set_params", i, MadeFrom(objs[i]), None, kw,
                       IF IsOk(set_params(objs[i], kw).ret)
                       THEN Ok(Ref(i)) ELSE set_params(objs[i], kw).ret)
    /\ UNCHANGED <<pipe, ptold>>

\* t.set_params(**kw)
SetParams(i, kw) ==
    LET r == set_params(objs[i], kw)
    IN  /\ objs' = [objs EXCEPT ![i] = r.self]
        /\ IF IsOk(r.ret) /\ clean
           THEN /\ told' = [told EXCEPT ![i] = Overridden(told[i], kw)]
                /\ clean' = clean
           ELSE /\ told' = [j \in DOMAIN told |-> NoHistory]
                /\ clean' = FALSE
        /\ last' = CallRec("set_params", i, MadeFrom(objs[i]), None, kw,
                           IF IsOk(r.ret) THEN Ok(Ref(i)) ELSE r.ret)
        /\ UNCHANGED <<pipe, ptold>>

\* t.get_params()
GetParams(i) ==
    /\ last' = CallRec("get_params", i, MadeFrom(objs[i]), None, << >>,
                       Ok(<<"dict", get_params(objs[i])>>))
    /\ UNCHANGED <<objs, told, clean, pipe, ptold>>

\* t.fit(x)
Fit(i, x) ==
    /\ objs' = [objs EXCEPT ![i] = proto_fit(objs[i], x)]
    /\ last' = CallRec("fit", i, MadeFrom(objs[i]), x, << >>, Ok(Ref(i)))
    /\ UNCHANGED <<told, clean, pipe, ptold>>

\* t.transform(x)
Transform(i, x) ==
    /\ last' = CallRec("transform", i, MadeFrom(objs[i]), x, << >>,
                       proto_transform(objs[i], x))
    /\ UNCHANGED <<objs, told, clean, pipe, ptold>>

\* t.fit_transform(x)
FitTransform(i, x) ==
    /\ objs' = [objs EXCEPT ![i] = proto_fit(objs[i], x)]
    /\ last' = CallRec("fit_transform", i, MadeFrom(objs[i]), x, << >>,
                       fit_transform(objs[i], x))
    /\ UNCHANGED <<told, clean, pipe, ptold>>

Next ==
    \/ \E f \in Wrappable \cup {None} : \E kw \in Dicts(KwFor(f)) :
           FunctionTransformer(f, kw)
    \/ \E i \in DOMAIN objs : \E kw \in Dicts(KwFor(MadeFrom(objs[i]))) :
           SetParams(i, kw)
    \/ \E i \in DOMAIN objs : GetParams(i)
    \/ \E i \in DOMAIN objs : \E x \in Inputs : Fit(i, x)
    \/ \E i \in DOMAIN objs : \E x \in Inputs : Transform(i, x)
    \/ \E i \in DOMAIN objs : \E x \in Inputs : FitTransform(i, x)

Spec == Init /\ [][Next]_vars

-----------------------------------------------------------------------------
(* A wrapped function with a keyword parameter named func: the generated   *)
(* '__init__(self, func)' runs 'self.func = func' on its own parameter.    *)

\* scale, and apply whose keyword parameter has the name of the attribute
\* that holds the function
ShadowFuncs == {Fn("scale"), Fn("apply")}

NextShadow ==
    \/ \E f \in ShadowFuncs : \E kw \in Dicts(KwFor(f)) :
           FunctionTransformer(f, kw)
    \/ \E i \in DOMAIN objs : \E kw \in Dicts(KwFor(MadeFrom(objs[i]))) :
           SetParams(i, kw)
    \/ \E i \in DOMAIN objs : GetParams(i)
    \/ \E i \in DOMAIN objs : \E x \in Inputs : Fit(i, x)
    \/ \E i \in DOMAIN objs : \E x \in Inputs : Transform(i, x)
    \/ \E i \in DOMAIN objs : \E x \in Inputs : FitTransform(i, x)

SpecShadow == Init /\ [][NextShadow]_vars

-----------------------------------------------------------------------------
(* Several transformers side by side, made from the same function or from  *)
(* different ones by earlier and later factory calls.                      *)

\* the functions of the transformers kept side by side
PairFuncs == {Fn("scale"), Fn("shift")}

\* t2 = function_transformer(f, **kw) next to the transformers made before
FunctionTransformerBeside(f, kw) == Construct(f, kw, MaxPair)

NextPair ==
    \/ \E f \in PairFuncs : \E kw \in Dicts(KwFor(f)) :
           FunctionTransformerBeside(f, kw)
    \/ \E i \in DOMAIN objs : \E kw \in Dicts(KwFor(MadeFrom(objs[i]))) :
           SetParams(i, kw)
    \/ \E i \in DOMAIN objs : GetParams(i)
    \/ \E i \in DOMAIN objs : \E x \in Inputs : Fit(i, x)
    \/ \E i \in DOMAIN objs : \E x \in Inputs : Transform(i, x)
    \/ \E i \in DOMAIN objs : \E x \in Inputs : FitTransform(i, x)

SpecPair == Init /\ [][NextPair]_vars

-----------------------------------------------------------------------------
(* The pipeline.                                                           *)

\* the names of the steps, by position
NameSeq == <<"identity", "scaler", "scaler0", "scaler1">>

\* the functions of the steps: none (identity), scale and shift
StepFuncs == {None, Fn("scale"), Fn("shift")}

\* the nested keyword arguments a caller tries on the pipeline: the
\* keyword names of each step with each value, a name the step does not
\* have, and a step that does not exist
NestedKw ==
    UNION {({<<pipe[k].name, n>> : n \in KwNames(MadeFrom(pipe[k].est))} \X Vals)
              \cup {<< <<pipe[k].name, "bogus">>, PyInt(2) >>} : k \in DOMAIN pipe}
        \cup {<< <<"bogus", "factor">>, PyInt(2) >>}

\* pipeline = Pipeline([(name1, function_transformer(f1, **kw1)), ...])
MakePipeline(fs, kws) ==
    LET made == [k \in DOMAIN fs |-> function_transformer(fs[k], kws[k])]
    IN  /\ pipe = << >>
        /\ \A k \in DOMAIN fs : IsOk(made[k])
        /\ pipe' = [k \in DOMAIN fs |-> [name |-> NameSeq[k], est |-> made[k][2]]]
        /\ ptold' = [k \in DOMAIN fs |->
                       IF clean THEN Overridden(
                                  [n \in KwNames(fs[k]) |-> DefaultOf(fs[k], n)],
                                  kws[k])
                       ELSE NoHistory]
        /\ last' = CallRec("Pipeline", 0, None, None, << >>, Ok(None))
        /\ UNCHANGED <<objs, told, clean>>

\* pipeline.set_params(**kw)
PipeSetParams(kw) ==
    LET r == pipeline_set_params(pipe, kw)
    IN  /\ pipe # << >>
        /\ pipe' = r.steps
        /\ IF IsOk(r.ret) /\ clean
           THEN /\ ptold' = [k \in DOMAIN ptold |->
                                Overridden(ptold[k], sub_params(kw, pipe[k].name))]
                /\ clean' = clean
           ELSE /\ ptold' = [k \in DOMAIN ptold |-> NoHistory]
                /\ clean' = FALSE
        /\ last' = CallRec("Pipeline.set_params", 0, None, None, kw, r.ret)
        /\ UNCHANGED <<objs, told>>

\* pipeline.fit_transform(x)
PipeFitTransform(x) ==
    LET r == pipeline_fit_transform(pipe, x, 1)
    IN  /\ pipe # << >>
        /\ pipe' = r.steps
        /\ last' = CallRec("Pipeline.fit_transform", 0, None, x, << >>, r.ret)
        /\ UNCHANGED <<objs, told, clean, ptold>>

\* the factory calls that make a step: a function and keyword arguments it
\* is made with
StepCalls ==
    {c \in UNION {{f} \X Dicts(KwFor(f)) : f \in StepFuncs} :
        IsOk(function_transformer(c[1], c[2]))}

NextPipeline ==
    \/ \E n \in 1..MaxSteps : \E cs \in [1..n -> StepCalls] :
          MakePipeline([k \in 1..n |-> cs[k][1]], [k \in 1..n |-> cs[k][2]])
    \/ \E kw \in DictsUpTo(NestedKw, MaxNested) : PipeSetParams(kw)
    \/ \E x \in Inputs : PipeFitTransform(x)

SpecPipeline == Init /\ [][NextPipeline]_vars

-----------------------------------------------------------------------------
(* What a caller reads off the def line of f, used to state the claims.    *)

\* the defaults of f by keyword name
Defaults(f) == [n \in KwNames(f) |-> DefaultOf(f, n)]

\* the number of parameters of f without a default
Required(f) ==
    Cardinality({i \in DOMAIN signature(f[2]) :
                    signature(f[2])[i].default = Empty})

\* the keyword arguments k1=m[k1], ..., kN=m[kN] of a direct call of f
KwArgs(f, m) ==
    LET ks == SelectSeq(Names(signature(f[2])), LAMBDA n : n \in DOMAIN m)
    IN  [i \in DOMAIN ks |-> << <<ks[i]>>, m[ks[i]] >>]

\* some keyword name of the last call is not a keyword name of f
NamesUnknown(f) == \E k \in last.keys : Len(k) # 1 \/ k[1] \notin KwNames(f)

Made == last.op = "function_transformer" /\ IsOk(last.ret)

\* the function the factory was given for a transformer, _identity when it
\* was given none
FuncGiven(self) ==
    IF MadeFrom(self) = None THEN Fn("_identity") ELSE MadeFrom(self)

-----------------------------------------------------------------------------
(* C1: a transformer made without overrides from a function with one       *)
(* required parameter and N >= 1 keyword parameters has exactly the        *)
(* function's keyword names as its parameters (not the data argument, not  *)
(* func), each at the function's default.                                  *)
C1_ParamsAreKeywordDefaults ==
    (Made /\ last.keys = {} /\ last.func # None
        /\ Required(last.func) = 1 /\ KwNames(last.func) # {})
    => get_params(objs[last.obj]) = Defaults(last.func)

C1_Witness ==
    /\ Made
    /\ last.keys = {}
    /\ last.func = Fn("linear")
    /\ get_params(objs[last.obj]) =
           [n \in {"arg1", "arg2"} |-> IF n = "arg1" THEN PyInt(1) ELSE PyInt(3)]

(* C2: with only set_params calls that returned, transform(x) is the       *)
(* direct call func(x, k1=v1, ..., kN=vN) on the values the caller last    *)
(* gave (or the construction values); for a function whose one required    *)
(* parameter takes x that is func(x) when those values are the defaults.   *)
C2_TransformIsDirectCall ==
    (last.op = "transform" /\ last.func # None /\ clean)
    => /\ last.ret = Call(last.func, <<last.x>>,
                          KwArgs(last.func, told[last.obj]))
       /\ (Required(last.func) = 1 /\ told[last.obj] = Defaults(last.func))
          => last.ret = Call(last.func, <<last.x>>, << >>)

C2_Witness ==
    /\ last.op = "transform"
    /\ clean
    /\ last.func = Fn("scale")
    /\ told[last.obj]["factor"] = PyInt(2)
    /\ last.x = X
    /\ last.ret = Ok(Array(<< <<2, 4>>, <<6, 8>> >>))

(* C3: the transformer made without a function returns its input from      *)
(* transform and fit_transform, whatever fit calls came before, and has no *)
(* parameters.                                                             *)
C3_NoFunctionIsIdentity ==
    /\ \A i \in DOMAIN objs :
          MadeFrom(objs[i]) = None => DOMAIN get_params(objs[i]) = {}
    /\ (last.op \in {"transform", "fit_transform"} /\ last.func = None)
       => last.ret = Ok(last.x)

C3_Witness ==
    /\ last.op = "transform"
    /\ last.func = None
    /\ last.x = X
    /\ last.ret = Ok(X)

(* C4: a construction override is the initial stored value of its          *)
(* parameter, every parameter not overridden starts at the default, and a  *)
(* later set_params on a name replaces what was stored for it: the stored  *)
(* value is always the one the caller gave last.                           *)
C4_OverrideThenSet ==
    /\ (Made /\ last.func # None)
       => \A n \in KwNames(last.func) :
             <<n>> \notin last.keys
             => get_params(objs[last.obj])[n] = DefaultOf(last.func, n)
    /\ clean => \A i \in DOMAIN objs : get_params(objs[i]) = told[i]

C4_Witness ==
    /\ last.op = "set_params"
    /\ IsOk(last.ret)
    /\ clean
    /\ last.func = Fn("scale")
    /\ last.keys = {<<"factor">>}
    /\ told[last.obj]["factor"] = PyInt(10)
    /\ proto_transform(objs[last.obj], X) = Ok(Array(<< <<10, 20>>, <<30, 40>> >>))

(* C5: a set_params that returns changes only the parameters it names:     *)
(* every other parameter of the object, its func and every other object    *)
(* stay as they were.                                                      *)
C5_SetParamsFrame ==
    [][(last'.op = "set_params" /\ IsOk(last'.ret))
       => /\ last'.obj \in DOMAIN objs
          /\ \A n \in DOMAIN objs[last'.obj].dict :
                <<n>> \notin last'.keys
                => objs'[last'.obj].dict[n] = objs[last'.obj].dict[n]
          /\ DOMAIN objs'[last'.obj].dict = DOMAIN objs[last'.obj].dict
          /\ objs'[last'.obj].cls = objs[last'.obj].cls
          /\ \A j \in DOMAIN objs : j # last'.obj => objs'[j] = objs[j]]_vars

C5_Witness ==
    /\ last.op = "set_params"
    /\ IsOk(last.ret)
    /\ last.func = Fn("linear")
    /\ last.keys = {<<"arg2">>}
    /\ objs[last.obj].dict["arg1"] = PyInt(2)
    /\ objs[last.obj].dict["arg2"] = PyInt(10)

(* C6: fit returns the object it was called on and changes nothing, so     *)
(* fit followed by transform gives what transform gave before.             *)
C6_FitIsNoOp ==
    [][/\ last'.op \in {"fit", "fit_transform"}
          => /\ objs' = objs
             /\ last'.obj \in DOMAIN objs
       /\ last'.op = "fit" => last'.ret = Ok(Ref(last'.obj))
       /\ last'.op = "fit_transform"
          => last'.ret = proto_transform(objs[last'.obj], last'.x)]_vars

C6_Witness ==
    /\ last.op = "fit"
    /\ last.ret = Ok(Ref(last.obj))
    /\ last.func = Fn("scale")
    /\ objs[last.obj].dict["factor"] = PyInt(10)

(* C7: a keyword that is not a keyword name of the function raises, at     *)
(* construction and in set_params; no object is made from it and the       *)
(* object it is set on gets no new parameter or attribute.                 *)
C7_UnknownNameRejected ==
    /\ (last.op \in {"function_transformer", "set_params"}
           /\ NamesUnknown(last.func))
       => ~IsOk(last.ret)
    /\ \A i \in DOMAIN objs :
          /\ DOMAIN objs[i].dict = {"func"} \cup KwNames(MadeFrom(objs[i]))
          /\ DOMAIN get_params(objs[i]) = KwNames(MadeFrom(objs[i]))

C7_Witness ==
    /\ last.op = "set_params"
    /\ last.ret = Raise("ValueError")
    /\ last.func = Fn("scale")
    /\ last.keys = {<<"bogus">>}
    /\ DOMAIN objs[last.obj].dict = {"func", "factor"}

(* C8: the factory raises, and makes no transformer, for a function whose  *)
(* number of required positional parameters is not one.                    *)
C8_UnsupportedShapeRejected ==
    (last.op = "function_transformer" /\ last.func # None
        /\ Required(last.func) # 1)
    => ~IsOk(last.ret)

(* C9: the factory accepts a function with one required parameter and no  *)
(* keyword parameters; the transformer has no parameters and its           *)
(* transform(x) is func(x).                                                *)
C9_NoKeywordsAccepted ==
    (last.op = "function_transformer" /\ last.keys = {} /\ last.func # None
        /\ Required(last.func) = 1 /\ KwNames(last.func) = {})
    => /\ IsOk(last.ret)
       /\ DOMAIN get_params(objs[last.obj]) = {}
       /\ \A x \in Inputs :
             proto_transform(objs[last.obj], x) = Call(last.func, <<x>>, << >>)

RECURSIVE Composed(_, _)
\* the wrapped functions of steps 1..k applied in order to x, each with the
\* values the caller last gave for its step
Composed(k, x) ==
    IF k = 0 THEN Ok(x)
    ELSE LET r == Composed(k - 1, x)
             f == MadeFrom(pipe[k].est)
         IN  IF ~IsOk(r) THEN r
             ELSE IF f = None THEN r
             ELSE Call(f, <<r[2]>>, KwArgs(f, ptold[k]))

(* C10: pipeline.set_params(step__param=v) that returns changes only the   *)
(* named parameters of the named steps, which take the values given, and   *)
(* pipeline.fit_transform(x) is the steps' functions applied in step order *)
(* with the values given last.                                             *)
C10_NestedSetAndCompose ==
    [][/\ (last'.op = "Pipeline.set_params" /\ IsOk(last'.ret))
          => /\ DOMAIN pipe' = DOMAIN pipe
             /\ \A k \in DOMAIN pipe :
                   /\ pipe'[k].name = pipe[k].name
                   /\ pipe'[k].est.cls = pipe[k].est.cls
                   /\ DOMAIN pipe'[k].est.dict = DOMAIN pipe[k].est.dict
                   /\ \A n \in DOMAIN pipe[k].est.dict :
                         <<pipe[k].name, n>> \notin last'.keys
                         => pipe'[k].est.dict[n] = pipe[k].est.dict[n]
       /\ clean' => \A k \in DOMAIN pipe' : get_params(pipe'[k].est) = ptold'[k]
       /\ (last'.op = "Pipeline.fit_transform" /\ clean')
          => last'.ret = Composed(Len(pipe'), last'.x)]_vars

C10_Witness ==
    /\ last.op = "Pipeline.fit_transform"
    /\ clean
    /\ Len(pipe) = 2
    /\ MadeFrom(pipe[1].est) = None
    /\ pipe[2].name = "scaler"
    /\ MadeFrom(pipe[2].est) = Fn("scale")
    /\ ptold[2]["factor"] = PyInt(10)
    /\ last.x = X
    /\ last.ret = Ok(Array(<< <<10, 20>>, <<30, 40>> >>))

(* C11: in every state the attribute func of a transformer is the function *)
(* it was made from and func is not one of its parameters; a set_params    *)
(* call that names func raises; and the stored parameter values change     *)
(* only across a set_params call on that transformer: construction of      *)
(* another object, get_params, fit, transform and fit_transform leave      *)
(* them as they were.                                                      *)
C11_FuncFixedParamsBySetOnly ==
    [][/\ \A i \in DOMAIN objs' :
             /\ objs'[i].dict["func"] = FuncGiven(objs'[i])
             /\ "func" \notin DOMAIN get_params(objs'[i])
       /\ (last'.op = "set_params" /\ <<"func">> \in last'.keys)
          => ~IsOk(last'.ret)
       /\ \A i \in DOMAIN objs :
             get_params(objs'[i]) # get_params(objs[i])
             => (last'.op = "set_params" /\ last'.obj = i)]_vars

\* a transformer made from apply whose attribute func is the number a
\* set_params(func=10) that returned has stored
C11_Witness ==
    /\ last.op = "set_params"
    /\ IsOk(last.ret)
    /\ last.func = Fn("apply")
    /\ last.keys = {<<"func">>}
    /\ objs[last.obj].dict["func"] = PyInt(10)
    /\ proto_transform(objs[last.obj], X) = Raise("TypeError")

(* C12: a call on one transformer (set_params, returning or raising,       *)
(* get_params, fit, transform, fit_transform) and a factory call leave     *)
(* every other transformer as it was, whether made from the same function  *)
(* or not; and a factory call on f without overrides, whatever was done to *)
(* the transformers made from f before, makes a transformer whose class    *)
(* has f's defaults and whose stored values are f's defaults.              *)
C12_OthersAndFunctionUntouched ==
    [][/\ \A j \in DOMAIN objs : j # last'.obj => objs'[j] = objs[j]
       /\ DOMAIN objs \subseteq DOMAIN objs'
       /\ (last'.op = "function_transformer" /\ IsOk(last'.ret)
              /\ last'.keys = {})
          => /\ last'.obj \notin DOMAIN objs
             /\ get_params(objs'[last'.obj]) = Defaults(last'.func)
             /\ \A k \in DOMAIN objs'[last'.obj].cls.kwargs :
                   objs'[last'.obj].cls.defaults[k] =
                       DefaultOf(last'.func, objs'[last'.obj].cls.kwargs[k])]_vars

\* a second transformer of scale, made without overrides after the first
\* was set to factor 10, starts at factor 1 and the first keeps its 10
C12_Witness ==
    /\ Made
    /\ last.obj = 2
    /\ last.keys = {}
    /\ last.func = Fn("scale")
    /\ MadeFrom(objs[1]) = Fn("scale")
    /\ objs[1].dict["factor"] = PyInt(10)
    /\ objs[2].dict["factor"] = PyInt(1)
    /\ proto_transform(objs[1], X) = Ok(Array(<< <<10, 20>>, <<30, 40>> >>))
    /\ proto_transform(objs[2], X) = Ok(X)

====
